---- MODULE Spec2Model ----
(***************************************************************************)
(* Multiplayer snake server (pages/api/socket.ts): the room registry, the  *)
(* per-room game loop timer and the socket event handlers, as a state      *)
(* machine.  Every handler runs to completion (Node's single-threaded      *)
(* event loop), so each handler and each timer firing is one action.       *)
(***************************************************************************)
EXTENDS Integers, Sequences, FiniteSets, TLC

(***************************************************************************)
(* Program constants                                                       *)
(***************************************************************************)
BOARD_WIDTH == 30
BOARD_HEIGHT == 20
maxPlayers == 4
FOOD_COUNT == 3
SCORE_STEP == 10

Pos(px, py) == [x |-> px, y |-> py]

startPositions == << Pos(5, 10), Pos(25, 10), Pos(15, 5), Pos(15, 15) >>

PLAYER_COLORS == << "#4ade80", "#3b82f6", "#f59e0b", "#ef4444" >>

Directions == {"UP", "DOWN", "LEFT", "RIGHT"}

opposites == [d \in Directions |->
                CASE d = "UP" -> "DOWN"
                  [] d = "DOWN" -> "UP"
                  [] d = "LEFT" -> "RIGHT"
                  [] d = "RIGHT" -> "LEFT"]

\* gameState.winner === undefined
NoWinner == "undefined"

(***************************************************************************)
(* Bounds of the model                                                     *)
(***************************************************************************)
\* effective ticks modelled per game (since the room's last start-game)
MaxTicks == 1

\* effective ticks modelled per game when the game is left to itself
IdleTicks == 16

\* socket ids of the connections that may be opened
Conns == {"s1", "s2", "s3", "s4", "s5"}

\* ids of the rooms clients ask for; the two differ in letter case only
RoomIds == {"ROOM1", "room1"}

\* Math.random() is an input: a draw u in [0, 1) is kept as the numerator of
\* u = n / RandomScale, and a sample is a pair of draws, for x and for y.
RandomScale == 60

\* In a run, every call of generateFood draws its samples in the run's
\* sample order, cyclically from the start; the orders a run may have:
FreeStream ==
  << << 12, 30 >>, << 50, 30 >>, << 52, 30 >>, << 32, 15 >>, << 10, 27 >>, << 14, 30 >> >>
FoodStreams == { FreeStream }

VARIABLES
  rooms,          \* rooms: roomId -> Room, defined for the ids in the registry
  gameIntervals,  \* the room ids that have a handle in gameIntervals
  activeTimers,   \* roomId -> number of live setInterval timers ticking it
  connState,      \* socket id -> "new" | "connected" | "closed"
  socketRooms,    \* socket id -> socket.rooms without the socket's own id
  emitted,        \* the messages emitted by the last handler, in order
  rng,            \* the sample order of this run's Math.random() draws
  ticks           \* roomId -> effective ticks since the last start-game

vars == << rooms, gameIntervals, activeTimers, connState, socketRooms,
           emitted, rng, ticks >>

(***************************************************************************)
(* Sequence helpers                                                        *)
(***************************************************************************)
Range(s) == { s[i] : i \in 1..Len(s) }

RECURSIVE Filter(_, _)
Filter(s, keep) ==
  IF s = << >> THEN << >>
  ELSE IF Head(s) \in keep THEN << Head(s) >> \o Filter(Tail(s), keep)
       ELSE Filter(Tail(s), keep)

\* Array.prototype.findIndex, 1-based; 0 when nothing matches
RECURSIVE FindIndexFrom(_, _, _)
FindIndexFrom(s, v, i) ==
  IF i > Len(s) THEN 0
  ELSE IF s[i] = v THEN i
       ELSE FindIndexFrom(s, v, i + 1)

findIndex(s, v) == FindIndexFrom(s, v, 1)

\* Array.prototype.splice(i, 1), 1-based
splice1(s, i) == SubSeq(s, 1, i - 1) \o SubSeq(s, i + 1, Len(s))

\* Array.prototype.pop
pop(s) == SubSeq(s, 1, Len(s) - 1)

(***************************************************************************)
(* Game state                                                              *)
(***************************************************************************)
createInitialGameState(roomId) ==
  [ players |-> << >>,
    food |-> << >>,
    gameStarted |-> FALSE,
    gameOver |-> FALSE,
    winner |-> NoWinner,
    roomId |-> roomId ]

\* gameState.players is an object keyed by socket id; Object.values and
\* Object.keys list it in insertion order, so it is kept as a sequence
PlayerIds(gs) == [ i \in 1..Len(gs.players) |-> gs.players[i].id ]

HasPlayer(gs, id) == \E i \in 1..Len(gs.players) : gs.players[i].id = id

PlayerOf(gs, id) ==
  gs.players[CHOOSE i \in 1..Len(gs.players) : gs.players[i].id = id]

\* gameState.players[id] = player
SetPlayer(ps, player) ==
  IF \E i \in 1..Len(ps) : ps[i].id = player.id
  THEN [ i \in 1..Len(ps) |-> IF ps[i].id = player.id THEN player ELSE ps[i] ]
  ELSE Append(ps, player)

\* the delete that removes nothing
DeletePlayer_keep(ps, id) == ps

\* delete gameState.players[id]
DeletePlayer(ps, id) ==
  LET keep == { i \in 1..Len(ps) : ps[i].id # id }
      RECURSIVE Sel(_)
      Sel(i) == IF i > Len(ps) THEN << >>
                ELSE IF i \in keep THEN << ps[i] >> \o Sel(i + 1)
                     ELSE Sel(i + 1)
  IN Sel(1)

\* the occupancy test that looks at the snakes only
isPositionOccupied_snakesOnly(pos, gs) ==
  \E i \in 1..Len(gs.players) :
    \E j \in 1..Len(gs.players[i].snake) : gs.players[i].snake[j] = pos

isPositionOccupied(pos, gs) ==
  \/ \E i \in 1..Len(gs.players) :
       \E j \in 1..Len(gs.players[i].snake) : gs.players[i].snake[j] = pos
  \/ \E k \in 1..Len(gs.food) : gs.food[k] = pos

\* generateFood: sample until a free cell is found or 100 samples are drawn,
\* and return the last sample.  sample(k) is the k-th draw of the call.
MAX_ATTEMPTS == 100

\* Math.floor(Math.random() * n)
randomBelow(draw, n) == (draw * n) \div RandomScale

sample(k) ==
  LET draw == rng[((k - 1) % Len(rng)) + 1]
  IN Pos(randomBelow(draw[1], BOARD_WIDTH), randomBelow(draw[2], BOARD_HEIGHT))

RECURSIVE generateFoodFrom(_, _)
generateFoodFrom(gs, attempts) ==
  IF attempts < MAX_ATTEMPTS /\ isPositionOccupied(sample(attempts), gs)
  THEN generateFoodFrom(gs, attempts + 1)
  ELSE sample(attempts)

generateFood(gs) == generateFoodFrom(gs, 1)

\* for (i = 0; i < n; i++) food.push(generateFood(gameState))
RECURSIVE PushFood(_, _)
PushFood(gs, n) ==
  IF n = 0 THEN gs
  ELSE PushFood([ gs EXCEPT !.food = Append(@, generateFood(gs)) ], n - 1)

\* the player placed and coloured one index too far
createPlayer_offByOne(id, name, colorIndex) ==
  [ id |-> id,
    name |-> name,
    snake |-> << startPositions[((colorIndex + 1) % Len(startPositions)) + 1] >>,
    direction |-> "RIGHT",
    score |-> 0,
    color |-> PLAYER_COLORS[((colorIndex + 1) % Len(PLAYER_COLORS)) + 1],
    alive |-> TRUE ]

createPlayer(id, name, colorIndex) ==
  [ id |-> id,
    name |-> name,
    snake |-> << startPositions[(colorIndex % Len(startPositions)) + 1] >>,
    direction |-> "RIGHT",
    score |-> 0,
    color |-> PLAYER_COLORS[(colorIndex % Len(PLAYER_COLORS)) + 1],
    alive |-> TRUE ]

(***************************************************************************)
(* Messages                                                                *)
(***************************************************************************)
\* socket.emit(event, data): to the one socket
ToSocket(c, event, data) == [ to |-> c, event |-> event, data |-> data ]

\* io.to(roomId).emit('game-state', gameState): to the room's broadcast group
ToRoom(roomId, gs) == [ room |-> roomId, event |-> "game-state", state |-> gs ]

\* Array.from(rs).find(room => room !== socket.id); "" stands for undefined
firstRoom(rs) == IF rs = << >> THEN "" ELSE Head(rs)

currentRoom(c) == firstRoom(socketRooms[c])

\* socket.join(roomId): socket.rooms is a Set
socketJoin(rs, roomId) == IF roomId \in Range(rs) THEN rs ELSE Append(rs, roomId)

\* socket.leave(roomId)
socketLeave(rs, roomId) == Filter(rs, RoomIds \ {roomId})

(***************************************************************************)
(* Initial state: the server has been constructed, nobody is connected     *)
(***************************************************************************)
Init ==
  /\ rooms = << >>
  /\ gameIntervals = {}
  /\ activeTimers = [ r \in RoomIds |-> 0 ]
  /\ connState = [ c \in Conns |-> "new" ]
  /\ socketRooms = [ c \in Conns |-> << >> ]
  /\ emitted = << >>
  /\ rng \in FoodStreams
  /\ ticks = [ r \in RoomIds |-> 0 ]

(***************************************************************************)
(* Rules engine                                                            *)
(***************************************************************************)
\* the move with UP and DOWN taken for each other
moveSnake_flipY(player) ==
  LET head == player.snake[1]
      newHead ==
        CASE player.direction = "UP" -> Pos(head.x, head.y + 1)
          [] player.direction = "DOWN" -> Pos(head.x, head.y - 1)
          [] player.direction = "LEFT" -> Pos(head.x - 1, head.y)
          [] player.direction = "RIGHT" -> Pos(head.x + 1, head.y)
  IN [ player EXCEPT !.snake = << newHead >> \o @ ]

moveSnake(player) ==
  LET head == player.snake[1]
      newHead ==
        CASE player.direction = "UP" -> Pos(head.x, head.y - 1)
          [] player.direction = "DOWN" -> Pos(head.x, head.y + 1)
          [] player.direction = "LEFT" -> Pos(head.x - 1, head.y)
          [] player.direction = "RIGHT" -> Pos(head.x + 1, head.y)
  IN [ player EXCEPT !.snake = << newHead >> \o @ ]

\* the move that does not look at the alive flag
moveAlive_all(ps) ==
  [ i \in 1..Len(ps) |-> moveSnake(ps[i]) ]

\* updateGame, lines 166-172: move all alive players
moveAlive(ps) ==
  [ i \in 1..Len(ps) |-> IF ps[i].alive THEN moveSnake(ps[i]) ELSE ps[i] ]

\* the wall test with > for >=
hitsWall_gt(head) ==
  head.x < 0 \/ head.x > BOARD_WIDTH \/ head.y < 0 \/ head.y > BOARD_HEIGHT

\* the self test that leaves out the tail cell
hitsSelf_noTail(player) ==
  \E j \in 2..(Len(player.snake) - 1) : player.snake[j] = player.snake[1]

hitsWall(head) ==
  head.x < 0 \/ head.x >= BOARD_WIDTH \/ head.y < 0 \/ head.y >= BOARD_HEIGHT

hitsSelf(player) ==
  \E j \in 2..Len(player.snake) : player.snake[j] = player.snake[1]

\* the inner loop that passes over the players already marked dead
hitsOther_liveOnly(ps, aliveIdx, i) ==
  \E o \in Range(aliveIdx) :
    /\ ps[o].alive
    /\ ps[o].id # ps[i].id
    /\ \E j \in 1..Len(ps[o].snake) : ps[o].snake[j] = ps[i].snake[1]

\* the inner loop over alivePlayers: the other players of the snapshot,
\* whatever their alive flag has become during this pass
hitsOther(ps, aliveIdx, i) ==
  \E o \in Range(aliveIdx) :
    /\ ps[o].id # ps[i].id
    /\ \E j \in 1..Len(ps[o].snake) : ps[o].snake[j] = ps[i].snake[1]

\* one iteration of the outer loop of checkCollisions
collideOne(ps, aliveIdx, i) ==
  IF hitsWall(ps[i].snake[1]) \/ hitsSelf(ps[i]) \/ hitsOther(ps, aliveIdx, i)
  THEN [ ps EXCEPT ![i].alive = FALSE ]
  ELSE ps

RECURSIVE collideFrom(_, _, _)
collideFrom(ps, aliveIdx, k) ==
  IF k > Len(aliveIdx) THEN ps
  ELSE collideFrom(collideOne(ps, aliveIdx, aliveIdx[k]), aliveIdx, k + 1)

\* players.filter(p => p.alive), as indexes into Object.values(players)
aliveIndexes(ps) ==
  LET RECURSIVE Sel(_)
      Sel(i) == IF i > Len(ps) THEN << >>
                ELSE IF ps[i].alive THEN << i >> \o Sel(i + 1)
                     ELSE Sel(i + 1)
  IN Sel(1)

checkCollisions(gs) ==
  [ gs EXCEPT !.players = collideFrom(gs.players, aliveIndexes(gs.players), 1) ]

\* the iteration that removes the tail whether or not food was eaten
foodOne_alwaysPop(gs, i) ==
  LET player == gs.players[i]
      foodIndex == findIndex(gs.food, player.snake[1])
  IN IF ~player.alive THEN gs
     ELSE IF foodIndex # 0
          THEN LET eaten == [ gs EXCEPT !.food = splice1(@, foodIndex),
                                        !.players[i].score = @ + SCORE_STEP,
                                        !.players[i].snake = pop(@) ]
               IN [ eaten EXCEPT !.food = Append(@, generateFood(eaten)) ]
          ELSE [ gs EXCEPT !.players[i].snake = pop(@) ]

\* the iteration that puts no new food in the place of the food eaten
foodOne_noReplace(gs, i) ==
  LET player == gs.players[i]
      foodIndex == findIndex(gs.food, player.snake[1])
  IN IF ~player.alive THEN gs
     ELSE IF foodIndex # 0
          THEN [ gs EXCEPT !.food = splice1(@, foodIndex),
                           !.players[i].score = @ + SCORE_STEP ]
          ELSE [ gs EXCEPT !.players[i].snake = pop(@) ]

\* the iteration that does not pass over dead players
foodOne_deadEat(gs, i) ==
  LET player == gs.players[i]
      foodIndex == findIndex(gs.food, player.snake[1])
  IN IF foodIndex # 0
     THEN LET eaten == [ gs EXCEPT !.food = splice1(@, foodIndex),
                                   !.players[i].score = @ + SCORE_STEP ]
          IN [ eaten EXCEPT !.food = Append(@, generateFood(eaten)) ]
     ELSE [ gs EXCEPT !.players[i].snake = pop(@) ]

\* one iteration of the loop of checkFoodCollision
foodOne(gs, i) ==
  LET player == gs.players[i]
      foodIndex == findIndex(gs.food, player.snake[1])
  IN IF ~player.alive THEN gs
     ELSE IF foodIndex # 0
          THEN LET eaten == [ gs EXCEPT !.food = splice1(@, foodIndex),
                                        !.players[i].score = @ + SCORE_STEP ]
               IN [ eaten EXCEPT !.food = Append(@, generateFood(eaten)) ]
          ELSE [ gs EXCEPT !.players[i].snake = pop(@) ]

RECURSIVE foodFrom(_, _)
foodFrom(gs, i) ==
  IF i > Len(gs.players) THEN gs
  ELSE foodFrom(foodOne(gs, i), i + 1)

checkFoodCollision(gs) == foodFrom(gs, 1)

\* the win condition that lets a lone survivor play on
checkWin_lonePlays(gs) ==
  IF Len(aliveIndexes(gs.players)) = 0
  THEN [ gs EXCEPT !.gameOver = TRUE, !.gameStarted = FALSE ]
  ELSE gs

\* the win condition with the winner never recorded
checkWin_noWinner(gs) ==
  IF Len(aliveIndexes(gs.players)) <= 1
  THEN [ gs EXCEPT !.gameOver = TRUE, !.gameStarted = FALSE ]
  ELSE gs

\* the win condition naming the first player whenever the game ends
checkWin_firstWins(gs) ==
  IF Len(aliveIndexes(gs.players)) <= 1
  THEN [ gs EXCEPT !.gameOver = TRUE,
                   !.gameStarted = FALSE,
                   !.winner = IF Len(gs.players) > 0 THEN gs.players[1].id ELSE @ ]
  ELSE gs

\* updateGame, lines 178-186: the win condition
checkWin(gs) ==
  LET alivePlayers == aliveIndexes(gs.players)
  IN IF Len(alivePlayers) <= 1
     THEN [ gs EXCEPT !.gameOver = TRUE,
                      !.gameStarted = FALSE,
                      !.winner = IF Len(alivePlayers) = 1
                                 THEN gs.players[alivePlayers[1]].id
                                 ELSE @ ]
     ELSE gs

\* updateGame past its guard, lines 164-186
tick(gs) ==
  checkWin(checkFoodCollision(checkCollisions([ gs EXCEPT !.players = moveAlive(@) ])))

(***************************************************************************)
(* Game loop scheduler                                                     *)
(***************************************************************************)
\* startGameLoop without the clearInterval of the old timer
startGameLoop_noClear(roomId) ==
  /\ activeTimers' = [ activeTimers EXCEPT ![roomId] = @ + 1 ]
  /\ gameIntervals' = gameIntervals \cup {roomId}

\* startGameLoop: clear the room's old interval, if any, and set a new one
startGameLoop(roomId) ==
  /\ activeTimers' =
       [ activeTimers EXCEPT ![roomId] =
           (IF roomId \in gameIntervals THEN @ - 1 ELSE @) + 1 ]
  /\ gameIntervals' = gameIntervals \cup {roomId}

\* if (gameIntervals[roomId]) { clearInterval(...); delete gameIntervals[roomId] }
clearGameLoop(roomId) ==
  /\ activeTimers' =
       [ activeTimers EXCEPT ![roomId] =
           IF roomId \in gameIntervals THEN @ - 1 ELSE @ ]
  /\ gameIntervals' = gameIntervals \ {roomId}

(***************************************************************************)
(* Registry helpers                                                        *)
(***************************************************************************)
newRoom(roomId) ==
  [ id |-> roomId,
    players |-> << >>,
    maxPlayers |-> maxPlayers,
    gameState |-> createInitialGameState(roomId) ]

\* rooms[roomId] = room
putRoom(rs, roomId, room) ==
  [ r \in DOMAIN rs \cup {roomId} |-> IF r = roomId THEN room ELSE rs[r] ]

\* the deletion that empties the registry
deleteRoom_all(rs, roomId) == << >>

\* delete rooms[roomId]
deleteRoom(rs, roomId) == [ r \in DOMAIN rs \ {roomId} |-> rs[r] ]

\* the reset that leaves the scores as they were
resetPlayers_keepScore(ps) ==
  [ i \in 1..Len(ps) |->
      [ ps[i] EXCEPT
          !.snake = << startPositions[((i - 1) % Len(startPositions)) + 1] >>,
          !.direction = "RIGHT",
          !.alive = TRUE ] ]

\* the reset with the start cell taken one index too far
resetPlayers_offByOne(ps) ==
  [ i \in 1..Len(ps) |->
      [ ps[i] EXCEPT
          !.snake = << startPositions[(i % Len(startPositions)) + 1] >>,
          !.direction = "RIGHT",
          !.score = 0,
          !.alive = TRUE ] ]

\* start-game, lines 368-382: every player back to its start cell
resetPlayers(ps) ==
  [ i \in 1..Len(ps) |->
      [ ps[i] EXCEPT
          !.snake = << startPositions[((i - 1) % Len(startPositions)) + 1] >>,
          !.direction = "RIGHT",
          !.score = 0,
          !.alive = TRUE ] ]

\* the reset with gameOver left as it was
resetForStart_keepOver(gs) ==
  PushFood([ gs EXCEPT !.gameStarted = TRUE,
                       !.winner = NoWinner,
                       !.players = resetPlayers(@),
                       !.food = << >> ],
           FOOD_COUNT)

\* start-game, lines 363-388: the game state a successful start-game builds
resetForStart(gs) ==
  PushFood([ gs EXCEPT !.gameStarted = TRUE,
                       !.gameOver = FALSE,
                       !.winner = NoWinner,
                       !.players = resetPlayers(@),
                       !.food = << >> ],
           FOOD_COUNT)

\* the capacity test with > for >=
roomIsFull_gt(room) == Len(room.players) > room.maxPlayers

\* the player-count test with 1 for 2
notEnoughPlayers_one(room) == Len(room.gameState.players) < 1

\* the reversal test that rejects nothing
isReversal_never(direction, player) == FALSE

\* join-room, line 316: room.players.length >= room.maxPlayers
roomIsFull(room) == Len(room.players) >= room.maxPlayers

\* start-game, line 358: Object.keys(room.gameState.players).length < 2
notEnoughPlayers(room) == Len(room.gameState.players) < 2

\* change-direction, lines 409-416: opposites[direction] === player.direction
isReversal(direction, player) == opposites[direction] = player.direction

(***************************************************************************)
(* Event handlers                                                          *)
(***************************************************************************)
\* io.on('connection'): socket ids are fresh and opaque, so the connections
\* are taken to open in the order s1, s2, ...
ConnOrder == << "s1", "s2", "s3", "s4", "s5" >>

Connect(c) ==
  /\ connState[c] = "new"
  /\ \A i \in 1..Len(ConnOrder) :
       ConnOrder[i] = c => \A j \in 1..(i - 1) : connState[ConnOrder[j]] # "new"
  /\ connState' = [ connState EXCEPT ![c] = "connected" ]
  /\ emitted' = << ToSocket(c, "connected", c) >>
  /\ UNCHANGED << rng, rooms, gameIntervals, activeTimers, socketRooms,
                  ticks >>

\* the validation that forgets the player name
invalidJoin_roomOnly(roomId, playerName) == roomId = ""

\* join-room, line 287: !roomId || !playerName; "" stands for a missing or
\* empty field
invalidJoin(roomId, playerName) == roomId = "" \/ playerName = ""

\* the registry lookup that never finds the room
roomExists_never(rs, roomId) == FALSE

\* join-room, line 294: rooms[roomId] is there
roomExists(rs, roomId) == roomId \in DOMAIN rs

\* the membership test that never finds the requester
alreadyInRoom_never(room, c) == FALSE

\* join-room, line 308: room.players.includes(socket.id)
alreadyInRoom(room, c) == c \in Range(room.players)

\* socket.on('join-room')
JoinRoom(c, roomId, playerName) ==
  /\ connState[c] = "connected"
  /\ IF invalidJoin(roomId, playerName)
     THEN /\ emitted' = << ToSocket(c, "error", "Room ID and player name are required") >>
          /\ UNCHANGED << rooms, socketRooms >>
     ELSE LET rooms1 == IF roomExists(rooms, roomId) THEN rooms
                        ELSE putRoom(rooms, roomId, newRoom(roomId))
              room == rooms1[roomId]
          IN IF alreadyInRoom(room, c)
             THEN /\ emitted' = << ToSocket(c, "player-joined", c),
                                   ToRoom(roomId, room.gameState) >>
                  /\ rooms' = rooms1
                  /\ UNCHANGED socketRooms
             ELSE IF roomIsFull(room)
             THEN /\ emitted' = << ToSocket(c, "error", "Room is full") >>
                  /\ rooms' = rooms1
                  /\ UNCHANGED socketRooms
             ELSE LET members == Append(room.players, c)
                      player == createPlayer(c, playerName, Len(members) - 1)
                      gs1 == [ room.gameState EXCEPT !.players = SetPlayer(@, player) ]
                      gs2 == IF Len(gs1.food) = 0 THEN PushFood(gs1, FOOD_COUNT)
                             ELSE gs1
                  IN   /\ socketRooms' = [ socketRooms EXCEPT ![c] = socketJoin(@, roomId) ]
                       /\ rooms' = putRoom(rooms1, roomId,
                                           [ room EXCEPT !.players = members,
                                                         !.gameState = gs2 ])
                       /\ emitted' = << ToSocket(c, "player-joined", c),
                                        ToRoom(roomId, gs2) >>
  /\ UNCHANGED << rng, gameIntervals, activeTimers, connState, ticks >>

\* socket.on('start-game')
StartGame(c) ==
  /\ connState[c] = "connected"
  /\ LET roomId == currentRoom(c)
     IN IF roomId = "" \/ roomId \notin DOMAIN rooms
        THEN /\ emitted' = << ToSocket(c, "error", "Room not found") >>
             /\ UNCHANGED << rooms, gameIntervals, activeTimers, ticks >>
        ELSE IF notEnoughPlayers(rooms[roomId])
        THEN /\ emitted' = << ToSocket(c, "error", "Need at least 2 players to start") >>
             /\ UNCHANGED << rooms, gameIntervals, activeTimers, ticks >>
        ELSE LET gs2 == resetForStart(rooms[roomId].gameState)
             IN /\ ticks' = [ ticks EXCEPT ![roomId] = 0 ]
                /\ startGameLoop(roomId)
                /\ rooms' = [ rooms EXCEPT ![roomId].gameState = gs2 ]
                /\ emitted' = << ToRoom(roomId, gs2) >>
  /\ UNCHANGED << rng, connState, socketRooms >>

\* socket.on('change-direction')
ChangeDirection(c, direction) ==
  /\ connState[c] = "connected"
  /\ emitted' = << >>
  /\ LET roomId == currentRoom(c)
     IN IF roomId = "" \/ roomId \notin DOMAIN rooms
        THEN UNCHANGED rooms
        ELSE LET gs == rooms[roomId].gameState
             IN IF ~HasPlayer(gs, c) \/ ~PlayerOf(gs, c).alive
                THEN UNCHANGED rooms
                ELSE IF ~isReversal(direction, PlayerOf(gs, c))
                THEN rooms' = [ rooms EXCEPT ![roomId].gameState.players =
                                  SetPlayer(@, [ PlayerOf(gs, c) EXCEPT
                                                   !.direction = direction ]) ]
                ELSE UNCHANGED rooms
  /\ UNCHANGED << rng, gameIntervals, activeTimers, connState, socketRooms, ticks >>

\* the removal that deletes an empty room and leaves its timer running
removeMember_noClear(c, roomId) ==
  LET room == rooms[roomId]
      members == Filter(room.players, Conns \ {c})
      gs1 == [ room.gameState EXCEPT !.players = DeletePlayer(@, c) ]
  IN IF Len(members) = 0
     THEN /\ rooms' = deleteRoom(rooms, roomId)
          /\ emitted' = << >>
          /\ UNCHANGED << gameIntervals, activeTimers >>
     ELSE /\ rooms' = putRoom(rooms, roomId,
                              [ room EXCEPT !.players = members, !.gameState = gs1 ])
          /\ emitted' = << ToRoom(roomId, gs1) >>
          /\ UNCHANGED << gameIntervals, activeTimers >>

\* leave-room, lines 430-444, and disconnect, lines 458-471: the member is
\* removed and the room torn down or told
removeMember(c, roomId) ==
  LET room == rooms[roomId]
      members == Filter(room.players, Conns \ {c})
      gs1 == [ room.gameState EXCEPT !.players = DeletePlayer(@, c) ]
  IN IF Len(members) = 0
     THEN /\ clearGameLoop(roomId)
          /\ rooms' = deleteRoom(rooms, roomId)
          /\ emitted' = << >>
     ELSE /\ rooms' = putRoom(rooms, roomId,
                              [ room EXCEPT !.players = members, !.gameState = gs1 ])
          /\ emitted' = << ToRoom(roomId, gs1) >>
          /\ UNCHANGED << gameIntervals, activeTimers >>

\* socket.on('leave-room')
LeaveRoom(c) ==
  /\ connState[c] = "connected"
  /\ LET roomId == currentRoom(c)
     IN IF roomId = "" \/ roomId \notin DOMAIN rooms
        THEN /\ emitted' = << >>
             /\ UNCHANGED << rooms, gameIntervals, activeTimers, socketRooms >>
        ELSE /\ removeMember(c, roomId)
             /\ socketRooms' = [ socketRooms EXCEPT ![c] = socketLeave(@, roomId) ]
  /\ UNCHANGED << rng, connState, ticks >>

\* What socket.rooms holds when the 'disconnect' listener runs.  The
\* transport decides: it may already have taken the socket out of all its
\* rooms, or the listener may still see them.
roomsAtDisconnect(c) == { << >>, socketRooms[c] }

\* socket.on('disconnect')
Disconnect(c) ==
  /\ connState[c] = "connected"
  /\ connState' = [ connState EXCEPT ![c] = "closed" ]
  /\ socketRooms' = [ socketRooms EXCEPT ![c] = << >> ]
  /\ \E seen \in roomsAtDisconnect(c) :
       LET roomId == firstRoom(seen)
       IN IF roomId = "" \/ roomId \notin DOMAIN rooms
          THEN /\ emitted' = << >>
               /\ UNCHANGED << rooms, gameIntervals, activeTimers >>
          ELSE removeMember(c, roomId)
  /\ UNCHANGED << rng, ticks >>

\* the guard of updateGame with the gameStarted test left out
staleTick_noStarted(roomId) ==
  \/ roomId \notin DOMAIN rooms
  \/ rooms[roomId].gameState.gameOver

\* updateGame, lines 159-162: the firing has nothing to update
staleTick(roomId) ==
  \/ roomId \notin DOMAIN rooms
  \/ ~rooms[roomId].gameState.gameStarted
  \/ rooms[roomId].gameState.gameOver

\* updateGame(roomId, io), for a game that is followed for limit ticks
updateGameWithin(roomId, limit) ==
  /\ IF staleTick(roomId)
     THEN /\ emitted' = << >>
          /\ UNCHANGED << rooms, gameIntervals, activeTimers, ticks >>
     ELSE /\ ticks[roomId] < limit
          /\ ticks' = [ ticks EXCEPT ![roomId] = @ + 1 ]
          /\ LET gs2 == tick(rooms[roomId].gameState)
             IN /\ rooms' = [ rooms EXCEPT ![roomId].gameState = gs2 ]
                /\ emitted' = << ToRoom(roomId, gs2) >>
                /\ IF gs2.gameOver
                   THEN clearGameLoop(roomId)
                   ELSE UNCHANGED << gameIntervals, activeTimers >>
  /\ UNCHANGED << rng, connState, socketRooms >>

\* updateGame(roomId, io)
updateGame(roomId) == updateGameWithin(roomId, MaxTicks)

\* a firing of an interval timer set by startGameLoop
Tick(roomId) ==
  /\ activeTimers[roomId] > 0
  /\ updateGame(roomId)

\* The events the clients send in the runs of Spec
Openers == {"s1", "s2", "s3"}
JoinExtra == { << "s1", "", "Ann" >>, << "s1", "ROOM1", "" >> }
JoinInputs == (Openers \X {"ROOM1"} \X {"Ann"}) \cup JoinExtra
Starters == {"s1", "s3"}
SteerInputs == {"s1"} \X Directions
Leavers == {"s1"}
Droppers == {"s2"}

Next ==
  \/ \E c \in Openers : Connect(c)
  \/ \E in \in JoinInputs : JoinRoom(in[1], in[2], in[3])
  \/ \E c \in Starters : StartGame(c)
  \/ \E in \in SteerInputs : ChangeDirection(in[1], in[2])
  \/ \E c \in Leavers : LeaveRoom(c)
  \/ \E c \in Droppers : Disconnect(c)
  \/ \E roomId \in RoomIds : Tick(roomId)

Spec == Init /\ [][Next]_vars

(***************************************************************************)
(* SpecFull: five connections and one room, for the capacity rule          *)
(***************************************************************************)
NextFull ==
  \/ \E c \in Conns : Connect(c)
  \/ \E c \in Conns : JoinRoom(c, "ROOM1", "Ann")
  \/ \E c \in {"s1"} : StartGame(c)
  \/ \E c \in {"s4"} : LeaveRoom(c)
  \/ Tick("ROOM1")

SpecFull == Init /\ [][NextFull]_vars

(***************************************************************************)
(* SpecRooms: two connections and two rooms, a client may ask for either   *)
(* room at any time                                                        *)
(***************************************************************************)
\* the steering looked at here: the connection has joined two rooms, and
\* the game of the room it resolves to has started and not yet ticked
Steering(c) ==
  /\ Len(socketRooms[c]) = 2
  /\ currentRoom(c) \in DOMAIN rooms
  /\ rooms[currentRoom(c)].gameState.gameStarted
  /\ ticks[currentRoom(c)] = 0

NextRooms ==
  \/ \E c \in {"s1", "s2"} : Connect(c)
  \/ \E c \in {"s1", "s2"}, roomId \in RoomIds : JoinRoom(c, roomId, "Ann")
  \/ \E c \in {"s1"} : StartGame(c)
  \/ \E c \in {"s2"}, d \in {"UP"} : Steering(c) /\ ChangeDirection(c, d)
  \/ \E c \in Leavers : LeaveRoom(c)
  \/ \E c \in Droppers : Disconnect(c)
  \/ \E roomId \in RoomIds : Tick(roomId)

SpecRooms == Init /\ [][NextRooms]_vars

(***************************************************************************)
(* SpecStale: updateGame called for any room id at any time, as a firing   *)
(* that races the teardown of its timer would call it                      *)
(***************************************************************************)
NextStale ==
  \/ \E c \in Openers : Connect(c)
  \/ \E c \in Openers : JoinRoom(c, "ROOM1", "Ann")
  \/ \E c \in {"s1"} : StartGame(c)
  \/ \E c \in {"s2"} : LeaveRoom(c)
  \/ \E roomId \in RoomIds : updateGame(roomId)

SpecStale == Init /\ [][NextStale]_vars

(***************************************************************************)
(* SpecRules: a game of two in mid-play.  The snakes have grown and        *)
(* wandered; the runs start from the positions below, steer both players   *)
(* and let the timer fire.                                                 *)
(***************************************************************************)
\* snake and heading of the first player: behind a food cell, coiled, and
\* at the right wall
Shapes1 ==
  { [ snake |-> << Pos(6, 10), Pos(5, 10) >>, direction |-> "RIGHT" ],
    [ snake |-> << Pos(10, 10), Pos(11, 10), Pos(11, 11), Pos(10, 11) >>,
      direction |-> "LEFT" ],
    [ snake |-> << Pos(29, 3) >>, direction |-> "RIGHT" ] }

\* snake and heading of the second player: facing the first, beside the
\* coil, and in the top left corner
Shapes2 ==
  { [ snake |-> << Pos(8, 10), Pos(8, 9) >>, direction |-> "LEFT" ],
    [ snake |-> << Pos(9, 10), Pos(9, 11), Pos(9, 12) >>, direction |-> "UP" ],
    [ snake |-> << Pos(0, 0) >>, direction |-> "UP" ] }

RulesFood == << Pos(7, 10), Pos(9, 9), Pos(20, 15) >>

\* a late position: the first player has eaten four times and is about to
\* eat again, and every cell that generateFood samples in this run is taken
\* by its snake, by the two other food items or, once the second player
\* has moved, by that player
GlutShapes ==
  << [ snake |-> << Pos(8, 10), Pos(7, 10), Pos(6, 10), Pos(5, 10), Pos(5, 9) >>,
       direction |-> "RIGHT" ],
     [ snake |-> << Pos(16, 4) >>, direction |-> "DOWN" ] >>

GlutFood == << Pos(9, 10), Pos(25, 10), Pos(26, 10) >>

\* the positions the runs start from: the two snakes and the food list
RulesStarts ==
  { << a, b, RulesFood >> : a \in Shapes1, b \in Shapes2 }
    \cup { << GlutShapes[1], GlutShapes[2], GlutFood >> }

\* a living snake is one cell long at start-game and gains a cell with
\* every 10 points (checkFoodCollision)
shaped(player, shape) ==
  [ player EXCEPT !.snake = shape.snake,
                  !.direction = shape.direction,
                  !.score = SCORE_STEP * (Len(shape.snake) - 1) ]

InitRules ==
  /\ \E start \in RulesStarts :
       rooms = putRoom(<< >>, "ROOM1",
                 [ newRoom("ROOM1") EXCEPT
                     !.players = << "s1", "s2" >>,
                     !.gameState =
                       [ createInitialGameState("ROOM1") EXCEPT
                           !.players = << shaped(createPlayer("s1", "Ann", 0), start[1]),
                                          shaped(createPlayer("s2", "Ann", 1), start[2]) >>,
                           !.food = start[3],
                           !.gameStarted = TRUE ] ])
  /\ gameIntervals = {"ROOM1"}
  /\ activeTimers = [ r \in RoomIds |-> IF r = "ROOM1" THEN 1 ELSE 0 ]
  /\ connState = [ c \in Conns |-> IF c \in {"s1", "s2"} THEN "connected" ELSE "new" ]
  /\ socketRooms = [ c \in Conns |-> IF c \in {"s1", "s2"} THEN << "ROOM1" >> ELSE << >> ]
  /\ emitted = << >>
  /\ rng \in FoodStreams
  /\ ticks = [ r \in RoomIds |-> 0 ]

NextRules ==
  \/ \E c \in {"s1", "s2"}, d \in Directions : ChangeDirection(c, d)
  \/ Tick("ROOM1")

SpecRules == InitRules /\ [][NextRules]_vars

(***************************************************************************)
(* SpecPass: a game of four in mid-play, for the collision pass.  The      *)
(* third player is either out of the game, its snake left lying where it   *)
(* died at the top wall, or still playing on the same cells.               *)
(***************************************************************************)
\* the first player at the right wall, the second below the first one's
\* tail, the fourth beside the third one's tail
PassShapes ==
  << [ snake |-> << Pos(29, 3), Pos(28, 3) >>, direction |-> "RIGHT" ],
     [ snake |-> << Pos(28, 4), Pos(28, 5) >>, direction |-> "UP" ],
     [ snake |-> << Pos(15, 0), Pos(15, 1) >>, direction |-> "UP" ],
     [ snake |-> << Pos(14, 1), Pos(13, 1) >>, direction |-> "RIGHT" ] >>

\* the player after the tick in which it ran into the top wall: moved, marked
\* dead and passed over by checkFoodCollision
wrecked(player) ==
  [ moveSnake(player) EXCEPT !.alive = FALSE ]

InitPass ==
  /\ \E third \in { shaped(createPlayer("s3", "Ann", 2), PassShapes[3]),
                     wrecked(shaped(createPlayer("s3", "Ann", 2), PassShapes[3])) } :
       rooms = putRoom(<< >>, "ROOM1",
                 [ newRoom("ROOM1") EXCEPT
                     !.players = << "s1", "s2", "s3", "s4" >>,
                     !.gameState =
                       [ createInitialGameState("ROOM1") EXCEPT
                           !.players = << shaped(createPlayer("s1", "Ann", 0), PassShapes[1]),
                                          shaped(createPlayer("s2", "Ann", 1), PassShapes[2]),
                                          third,
                                          shaped(createPlayer("s4", "Ann", 3), PassShapes[4]) >>,
                           !.food = RulesFood,
                           !.gameStarted = TRUE ] ])
  /\ gameIntervals = {"ROOM1"}
  /\ activeTimers = [ r \in RoomIds |-> IF r = "ROOM1" THEN 1 ELSE 0 ]
  /\ connState = [ c \in Conns |-> IF c = "s5" THEN "new" ELSE "connected" ]
  /\ socketRooms = [ c \in Conns |-> IF c = "s5" THEN << >> ELSE << "ROOM1" >> ]
  /\ emitted = << >>
  /\ rng \in FoodStreams
  /\ ticks = [ r \in RoomIds |-> 0 ]

NextPass ==
  \/ \E c \in {"s1", "s2", "s3", "s4"}, d \in Directions : ChangeDirection(c, d)
  \/ Tick("ROOM1")

SpecPass == InitPass /\ [][NextPass]_vars

(***************************************************************************)
(* SpecIdle: up to four players gather in the lobby, coming and going; one *)
(* of them starts the game, and from then on the clients send nothing and  *)
(* the timer keeps firing.                                                 *)
(***************************************************************************)
\* no start-game has succeeded yet for ROOM1
InLobby ==
  "ROOM1" \in DOMAIN rooms =>
    /\ ~rooms["ROOM1"].gameState.gameStarted
    /\ ~rooms["ROOM1"].gameState.gameOver

\* a firing of the room's timer in a game that is followed to its end
IdleTick(roomId) ==
  /\ activeTimers[roomId] > 0
  /\ updateGameWithin(roomId, IdleTicks)

NextIdle ==
  \/ InLobby /\ \E c \in {"s1", "s2", "s3", "s4"} : Connect(c)
  \/ InLobby /\ \E c \in {"s1", "s2", "s3", "s4"} : JoinRoom(c, "ROOM1", "Ann")
  \/ InLobby /\ \E c \in {"s1"} : LeaveRoom(c)
  \/ InLobby /\ \E c \in {"s1", "s2"} : StartGame(c)
  \/ IdleTick("ROOM1")

SpecIdle == Init /\ [][NextIdle]_vars

(***************************************************************************)
(* Properties                                                              *)
(***************************************************************************)
GS(r) == rooms[r].gameState

AliveCount(gs) == Cardinality({ i \in 1..Len(gs.players) : gs.players[i].alive })

\* updateGame runs past its guard for room r
EffectiveTick(r) ==
  /\ r \in DOMAIN rooms
  /\ GS(r).gameStarted
  /\ ~GS(r).gameOver
  /\ ticks'[r] = ticks[r] + 1
  /\ Tick(r)

\* C1: between handlers, for every room id, an interval timer ticks the room
\* if and only if the room is in the registry and its gameStarted is true;
\* no room id has more than one live timer, and gameIntervals holds a handle
\* exactly for the ids that have one.
C1_TimerIffStarted ==
  \A r \in RoomIds :
    /\ activeTimers[r] <= 1
    /\ (activeTimers[r] = 1) <=> (r \in DOMAIN rooms /\ GS(r).gameStarted)
    /\ (r \in gameIntervals) <=> (activeTimers[r] = 1)

\* a started game whose one timer has survived a tick
C1_Witness ==
  \E r \in DOMAIN rooms :
    GS(r).gameStarted /\ activeTimers[r] = 1 /\ ticks[r] = 1

\* C2: in every reachable state of every room, gameStarted and gameOver are
\* not both true.
C2_NotStartedAndOver ==
  \A r \in DOMAIN rooms : ~(GS(r).gameStarted /\ GS(r).gameOver)

\* a game that has ended, and one that was started again after it ended
C2_Witness ==
  \E r \in DOMAIN rooms : GS(r).gameOver /\ ~GS(r).gameStarted

\* C3: an effective tick that leaves exactly one player alive ends with
\* gameOver true, gameStarted false, winner the id of that player, and no
\* timer left for the room.
C3_SoleSurvivorWins ==
  [][ \A r \in RoomIds :
        (EffectiveTick(r) /\ AliveCount(GS(r)') = 1) =>
          /\ GS(r)'.gameOver
          /\ ~GS(r)'.gameStarted
          /\ \E i \in 1..Len(GS(r)'.players) :
               /\ GS(r)'.players[i].alive
               /\ GS(r)'.winner = GS(r)'.players[i].id
          /\ activeTimers'[r] = 0
          /\ r \notin gameIntervals' ]_vars

\* a tick has just ended a game of several players with one survivor
C3_Witness ==
  \E r \in DOMAIN rooms :
    /\ emitted = << ToRoom(r, GS(r)) >>
    /\ ticks[r] > 0
    /\ GS(r).gameOver
    /\ Len(GS(r).players) >= 2
    /\ AliveCount(GS(r)) = 1
    /\ \E i \in 1..Len(GS(r).players) :
         GS(r).players[i].alive /\ GS(r).winner = GS(r).players[i].id

\* C4: an effective tick that leaves no player alive ends with gameOver true,
\* gameStarted false and winner unset.
C4_MutualElimination ==
  [][ \A r \in RoomIds :
        (EffectiveTick(r) /\ AliveCount(GS(r)') = 0) =>
          /\ GS(r)'.gameOver
          /\ ~GS(r)'.gameStarted
          /\ GS(r)'.winner = NoWinner ]_vars

\* a tick has just killed the last two players at once
C4_Witness ==
  \E r \in DOMAIN rooms :
    /\ emitted = << ToRoom(r, GS(r)) >>
    /\ ticks[r] > 0
    /\ GS(r).gameOver
    /\ Len(GS(r).players) >= 2
    /\ AliveCount(GS(r)) = 0
    /\ GS(r).winner = NoWinner

\* the rooms whose membership list, or whose gameState.players, holds c
RoomsOf(c) ==
  { r \in DOMAIN rooms : c \in Range(rooms[r].players) \/ HasPlayer(GS(r), c) }

\* C5: a room never has more than 4 members; a join-room from a connection
\* that is not a member, sent to a room with 4 members, emits only the error
\* 'Room is full' to the requester, leaves the registry (membership, players,
\* food, flags) as it was and does not put the requester in the room's
\* broadcast group.
C5_RoomFull ==
  /\ [](\A r \in DOMAIN rooms : Len(rooms[r].players) <= maxPlayers)
  /\ [][ \A c \in Conns, r \in RoomIds :
          ( /\ r \in DOMAIN rooms
            /\ Len(rooms[r].players) = maxPlayers
            /\ c \notin Range(rooms[r].players)
            /\ JoinRoom(c, r, "Ann") ) =>
            /\ emitted' = << ToSocket(c, "error", "Room is full") >>
            /\ rooms' = rooms
            /\ socketRooms' = socketRooms
            /\ UNCHANGED << gameIntervals, activeTimers >> ]_vars

\* a fifth connection has just been refused by a room of four
C5_Witness ==
  \E c \in Conns, r \in DOMAIN rooms :
    /\ emitted = << ToSocket(c, "error", "Room is full") >>
    /\ Len(rooms[r].players) = maxPlayers
    /\ c \notin Range(rooms[r].players)
    /\ r \notin Range(socketRooms[c])

\* C6: a valid join-room for an id that is not in the registry creates the
\* room; every room in the registry has at least one member; when leave-room
\* or disconnect removes a room's last member the room is deleted and its
\* timer cancelled in that handler; and no timer ticks an id that is not in
\* the registry.
C6_RoomLifecycle ==
  /\ [](\A r \in DOMAIN rooms : Len(rooms[r].players) >= 1)
  /\ [](\A r \in RoomIds : r \notin DOMAIN rooms =>
                               activeTimers[r] = 0 /\ r \notin gameIntervals)
  /\ [][ \A c \in Conns, r \in RoomIds :
          (r \notin DOMAIN rooms /\ JoinRoom(c, r, "Ann")) =>
            (r \in DOMAIN rooms' /\ rooms'[r].players = << c >>) ]_vars
  /\ [][ \A c \in Conns, r \in RoomIds :
          ( /\ r \in DOMAIN rooms
            /\ rooms[r].players = << c >>
            /\ r \notin DOMAIN rooms' \/ c \notin Range(rooms'[r].players)
            /\ LeaveRoom(c) \/ Disconnect(c) ) =>
            /\ r \notin DOMAIN rooms'
            /\ activeTimers'[r] = 0
            /\ r \notin gameIntervals' ]_vars

\* the registry is empty again after a room that ran a game lost its last
\* member
C6_Witness ==
  /\ DOMAIN rooms = {}
  /\ emitted = << >>
  /\ \E r \in RoomIds : ticks[r] = 1
  /\ \E c \in Conns : connState[c] = "connected" /\ socketRooms[c] = << >>

\* C7: no connection id is a member of two different rooms, neither in the
\* membership lists nor as a key of gameState.players.
C7_OneRoomPerConnection ==
  \A c \in Conns : Cardinality(RoomsOf(c)) <= 1

\* C8: a successful start-game leaves every player of the room with score 0,
\* alive, direction RIGHT and the one-cell snake startPositions[i mod 4] for
\* its index i in the player order, 3 food items, gameStarted true, gameOver
\* false, winner unset, and exactly one timer for the room.
C8_StartResets ==
  [][ \A c \in Conns :
        LET r == currentRoom(c)
        IN ( /\ r \in DOMAIN rooms
             /\ Len(GS(r).players) >= 2
             /\ StartGame(c) ) =>
             /\ PlayerIds(GS(r)') = PlayerIds(GS(r))
             /\ \A i \in 1..Len(GS(r)'.players) :
                  LET pl == GS(r)'.players[i]
                  IN /\ pl.score = 0
                     /\ pl.alive
                     /\ pl.direction = "RIGHT"
                     /\ pl.snake = << startPositions[((i - 1) % 4) + 1] >>
             /\ Len(GS(r)'.food) = 3
             /\ GS(r)'.gameStarted
             /\ ~GS(r)'.gameOver
             /\ GS(r)'.winner = NoWinner
             /\ activeTimers'[r] = 1
             /\ r \in gameIntervals' ]_vars

\* a game of three has just been started
C8_Witness ==
  \E r \in DOMAIN rooms :
    /\ emitted = << ToRoom(r, GS(r)) >>
    /\ GS(r).gameStarted
    /\ ticks[r] = 0
    /\ activeTimers[r] = 1
    /\ Len(GS(r).players) = 3
    /\ \A i \in 1..3 : GS(r).players[i].snake = << startPositions[i] >>

\* C9: a start-game for a room with fewer than 2 players emits only an error
\* to the requester and changes neither the registry nor the timers.
C9_NotEnoughPlayers ==
  [][ \A c \in Conns :
        LET r == currentRoom(c)
        IN ( /\ r \in DOMAIN rooms
             /\ Len(GS(r).players) < 2
             /\ StartGame(c) ) =>
             /\ emitted' = << ToSocket(c, "error", "Need at least 2 players to start") >>
             /\ rooms' = rooms
             /\ UNCHANGED << gameIntervals, activeTimers, socketRooms >> ]_vars

\* a lone player of a room whose game is running has just been refused
C9_Witness ==
  \E c \in Conns, r \in DOMAIN rooms :
    /\ emitted = << ToSocket(c, "error", "Need at least 2 players to start") >>
    /\ rooms[r].players = << c >>
    /\ GS(r).gameStarted
    /\ activeTimers[r] = 1

OppositePairs ==
  { << "UP", "DOWN" >>, << "DOWN", "UP" >>, << "LEFT", "RIGHT" >>, << "RIGHT", "LEFT" >> }

\* C10: for an alive player and every direction d, change-direction(d) sets
\* the player's direction to d when d is not the opposite of its current
\* direction and leaves the direction unchanged when it is.
C10_DirectionChange ==
  [][ \A c \in Conns, d \in Directions :
        LET r == currentRoom(c)
        IN ( /\ r \in DOMAIN rooms
             /\ HasPlayer(GS(r), c)
             /\ PlayerOf(GS(r), c).alive
             /\ ChangeDirection(c, d) ) =>
             /\ HasPlayer(GS(r)', c)
             /\ PlayerOf(GS(r)', c).direction =
                  IF << d, PlayerOf(GS(r), c).direction >> \in OppositePairs
                  THEN PlayerOf(GS(r), c).direction
                  ELSE d ]_vars

\* a player has turned twice and now heads LEFT
C10_Witness ==
  \E c \in Conns, r \in DOMAIN rooms :
    /\ emitted = << >>
    /\ HasPlayer(GS(r), c)
    /\ PlayerOf(GS(r), c).alive
    /\ PlayerOf(GS(r), c).direction = "LEFT"

\* the cell one step from the player's head in the player's direction
HeadAfter(player) ==
  LET head == player.snake[1]
  IN IF player.direction = "UP" THEN Pos(head.x, head.y - 1)
     ELSE IF player.direction = "DOWN" THEN Pos(head.x, head.y + 1)
     ELSE IF player.direction = "LEFT" THEN Pos(head.x - 1, head.y)
     ELSE Pos(head.x + 1, head.y)

OffBoard(pos) == pos.x < 0 \/ pos.x >= 30 \/ pos.y < 0 \/ pos.y >= 20

\* the state checkFoodCollision is called on in a tick from gs
beforeFood(gs) == checkCollisions([ gs EXCEPT !.players = moveAlive(@) ])

\* the splices of checkFoodCollision from player i on, in the order of its
\* loop: who ate, the index findIndex gave and the item taken out.  The list
\* a player is looked up in is the list as the players before it left it,
\* replacements included.
RECURSIVE splicedFrom(_, _)
splicedFrom(gs, i) ==
  IF i > Len(gs.players) THEN << >>
  ELSE LET player == gs.players[i]
           foodIndex == findIndex(gs.food, player.snake[1])
       IN (IF player.alive /\ foodIndex # 0
           THEN << [ player |-> i, index |-> foodIndex, cell |-> gs.food[foodIndex] ] >>
           ELSE << >>) \o splicedFrom(foodOne(gs, i), i + 1)

Eaten(gs) == splicedFrom(beforeFood(gs), 1)

\* the food items that the tick from gs splices out, in the order of the loop
EatenCells(gs) == [ j \in 1..Len(Eaten(gs)) |-> Eaten(gs)[j].cell ]

\* the players that eat in the tick from gs
Eaters(gs) == { Eaten(gs)[j].player : j \in 1..Len(Eaten(gs)) }

\* the food list after the splices from the j-th on, with every pushed
\* replacement left open
NewFood == Pos(-1, -1)

RECURSIVE keptFrom(_, _, _)
keptFrom(food, ate, j) ==
  IF j > Len(ate) THEN food
  ELSE keptFrom(Append(splice1(food, ate[j].index), NewFood), ate, j + 1)

KeptFood(gs) == keptFrom(gs.food, Eaten(gs), 1)

\* C11: on every effective tick, every player alive at the end of the tick
\* has a snake one cell longer than before if its new head is on a food
\* cell when checkFoodCollision comes to it, and a snake of the same length
\* otherwise; a new head on a cell that held food before the tick is on a
\* food cell then.  (The one other way to be on a food cell is that
\* generateFood, out of free samples, has put a replacement under the head
\* earlier in the same pass.)
C11_LengthChange ==
  [][ \A r \in RoomIds :
        EffectiveTick(r) =>
          \A i \in 1..Len(GS(r).players) :
            GS(r)'.players[i].alive =>
              /\ Len(GS(r)'.players[i].snake) =
                   Len(GS(r).players[i].snake) +
                     (IF i \in Eaters(GS(r)) THEN 1 ELSE 0)
              /\ HeadAfter(GS(r).players[i]) \in Range(GS(r).food) =>
                   i \in Eaters(GS(r))
              /\ i \in Eaters(GS(r)) =>
                   \/ HeadAfter(GS(r).players[i]) \in Range(GS(r).food)
                   \/ \E o \in 1..(i - 1) : o \in Eaters(GS(r)) ]_vars

\* after a tick one living snake has grown to three cells and the other
\* has kept its length
C11_Witness ==
  \E r \in DOMAIN rooms :
    /\ ticks[r] = 1
    /\ emitted = << ToRoom(r, GS(r)) >>
    /\ \E i, j \in 1..Len(GS(r).players) :
         /\ GS(r).players[i].alive
         /\ GS(r).players[i].snake = << Pos(7, 10), Pos(6, 10), Pos(5, 10) >>
         /\ GS(r).players[i].score = 20
         /\ GS(r).players[j].alive
         /\ GS(r).players[j].score = 10
         /\ Len(GS(r).players[j].snake) = 2

\* C12: on every effective tick, a player alive at its start whose new head
\* has x < 0, x >= 30, y < 0 or y >= 20 is not alive at its end; between
\* handlers the head of every alive player is inside the 30x20 board.
C12_WallKills ==
  /\ [](\A r \in DOMAIN rooms :
          \A i \in 1..Len(GS(r).players) :
            GS(r).players[i].alive => ~OffBoard(GS(r).players[i].snake[1]))
  /\ [][ \A r \in RoomIds :
          EffectiveTick(r) =>
            \A i \in 1..Len(GS(r).players) :
              (GS(r).players[i].alive /\ OffBoard(HeadAfter(GS(r).players[i]))) =>
                ~GS(r)'.players[i].alive ]_vars

\* a snake has left the board over the right edge, another over the top
\* edge, and both are dead
C12_Witness ==
  \E r \in DOMAIN rooms :
    \E i, j \in 1..Len(GS(r).players) :
      /\ ~GS(r).players[i].alive
      /\ GS(r).players[i].snake[1].x = 30
      /\ ~GS(r).players[j].alive
      /\ GS(r).players[j].snake[1].y = -1

\* C13: on every effective tick, a player alive at its start whose new head
\* is a cell its snake occupied before the move, the tail cell included, is
\* dead at the end of the tick.
C13_SelfCollision ==
  [][ \A r \in RoomIds :
        EffectiveTick(r) =>
          \A i \in 1..Len(GS(r).players) :
            ( /\ GS(r).players[i].alive
              /\ HeadAfter(GS(r).players[i]) \in Range(GS(r).players[i].snake) ) =>
              ~GS(r)'.players[i].alive ]_vars

\* the coiled snake has turned onto its own tail cell and died there
C13_Witness ==
  \E r \in DOMAIN rooms :
    \E i \in 1..Len(GS(r).players) :
      LET snake == GS(r).players[i].snake
      IN /\ ~GS(r).players[i].alive
         /\ Len(snake) = 5
         /\ snake[1] = snake[5]
         /\ ~OffBoard(snake[1])

\* the cells under the snakes of all players of a game, alive or dead
SnakeCells(gs) == UNION { Range(gs.players[i].snake) : i \in 1..Len(gs.players) }

\* one of the 100 samples of a call of generateFood is a free cell
FreeSampleFound(gs) ==
  \E k \in 1..100 : sample(k) \notin (SnakeCells(gs) \cup Range(gs.food))

\* C14: generateFood, called on a game state in which one of its 100 samples
\* is free, returns a cell inside the 30x20 board that holds no food and no
\* snake segment of any player; the food a start-game generates is on the
\* board, off the snakes and pairwise distinct.
C14_FoodIsFree ==
  /\ [](\A r \in DOMAIN rooms :
          FreeSampleFound(GS(r)) =>
            /\ ~OffBoard(generateFood(GS(r)))
            /\ generateFood(GS(r)) \notin Range(GS(r).food)
            /\ generateFood(GS(r)) \notin SnakeCells(GS(r)))
  /\ [][ \A c \in Conns :
          LET r == currentRoom(c)
          IN ( /\ r \in DOMAIN rooms
               /\ Len(GS(r).players) >= 2
               /\ StartGame(c) ) =>
               \A k \in 1..Len(GS(r)'.food) :
                 /\ ~OffBoard(GS(r)'.food[k])
                 /\ GS(r)'.food[k] \notin SnakeCells(GS(r)')
                 /\ \A j \in 1..(k - 1) : GS(r)'.food[j] # GS(r)'.food[k] ]_vars

\* a game has just been started: its three food cells were found by passing
\* over occupied samples, and a further call would pass over four of them
C14_Witness ==
  \E r \in DOMAIN rooms :
    /\ emitted = << ToRoom(r, GS(r)) >>
    /\ GS(r).gameStarted
    /\ ticks[r] = 0
    /\ GS(r).food = << Pos(6, 10), Pos(26, 10), Pos(16, 5) >>
    /\ generateFood(GS(r)) = Pos(5, 9)

\* C15: in every reachable state of a room the food positions are pairwise
\* distinct and none of them is a cell of a snake of any player of the room.
C15_FoodApart ==
  \A r \in DOMAIN rooms :
    /\ \A j, k \in 1..Len(GS(r).food) : j # k => GS(r).food[j] # GS(r).food[k]
    /\ Range(GS(r).food) \cap SnakeCells(GS(r)) = {}

\* C16: a disconnect of a connection that is a member of a room does to the
\* server state what leave-room does: the id leaves the room's membership
\* and gameState.players; a room left empty is deleted and its timer
\* cancelled, otherwise the new game state is broadcast to the room.
C16_DisconnectAsLeave ==
  [][ \A c \in Conns, r \in RoomIds :
        ( /\ r = currentRoom(c)
          /\ r \in DOMAIN rooms
          /\ c \in Range(rooms[r].players)
          /\ Disconnect(c) ) =>
          IF rooms[r].players = << c >>
          THEN /\ r \notin DOMAIN rooms'
               /\ activeTimers'[r] = 0
               /\ r \notin gameIntervals'
          ELSE /\ r \in DOMAIN rooms'
               /\ c \notin Range(rooms'[r].players)
               /\ ~HasPlayer(GS(r)', c)
               /\ emitted' = << ToRoom(r, GS(r)') >> ]_vars

\* C17: updateGame called for a room id that is not in the registry, or
\* whose game is not started, or whose game is over, changes no room's game
\* state, creates and cancels no timer and broadcasts nothing.
C17_StaleTickNoOp ==
  [][ \A r \in RoomIds :
        ( /\ \/ r \notin DOMAIN rooms
             \/ ~GS(r).gameStarted
             \/ GS(r).gameOver
          /\ updateGame(r) ) =>
          /\ rooms' = rooms
          /\ UNCHANGED << gameIntervals, activeTimers >>
          /\ emitted' = << >> ]_vars

\* a game has ended, the player who had left has joined again, and a
\* firing for the room has come and gone
C17_Witness ==
  \E r \in DOMAIN rooms :
    /\ GS(r).gameOver
    /\ GS(r).winner = "s1"
    /\ {"s1", "s2"} \subseteq Range(rooms[r].players)
    /\ emitted = << >>

\* C18: a change-direction(d) accepted from an alive player sets the
\* player's direction to d; the direction then stays d until the player
\* steers again, a start-game resets it or the player leaves; and every
\* effective tick moves the head of every player alive at its start exactly
\* one cell in the player's direction (UP: y-1, DOWN: y+1, LEFT: x-1,
\* RIGHT: x+1).  So the tick after an accepted change-direction(d) moves
\* the head one cell in direction d.
C18_SteerThenTick ==
  /\ [][ \A c \in Conns :
          LET r == currentRoom(c)
          IN ( /\ r \in DOMAIN rooms
               /\ HasPlayer(GS(r), c)
               /\ PlayerOf(GS(r), c).alive ) =>
               \A d \in Directions :
                 ( /\ << d, PlayerOf(GS(r), c).direction >> \notin OppositePairs
                   /\ ChangeDirection(c, d) ) =>
                   PlayerOf(GS(r)', c).direction = d ]_vars
  /\ [][ \A c \in Conns, r \in RoomIds :
          ( /\ r \in DOMAIN rooms
            /\ r \in DOMAIN rooms'
            /\ HasPlayer(GS(r), c)
            /\ HasPlayer(GS(r)', c)
            /\ PlayerOf(GS(r)', c).direction # PlayerOf(GS(r), c).direction ) =>
            \/ \E d \in Directions : ChangeDirection(c, d)
            \/ \E c2 \in Conns : currentRoom(c2) = r /\ StartGame(c2) ]_vars
  /\ [][ \A r \in RoomIds :
          EffectiveTick(r) =>
            \A i \in 1..Len(GS(r).players) :
              GS(r).players[i].alive =>
                GS(r)'.players[i].snake[1] = HeadAfter(GS(r).players[i]) ]_vars

\* the first player has steered UP and the tick has moved its head one cell
\* up from its start cell
C18_Witness ==
  \E r \in DOMAIN rooms :
    /\ ticks[r] = 1
    /\ emitted = << ToRoom(r, GS(r)) >>
    /\ HasPlayer(GS(r), "s1")
    /\ PlayerOf(GS(r), "s1").direction = "UP"
    /\ PlayerOf(GS(r), "s1").snake = << Pos(5, 9) >>

\* C19: every handler and every timer firing that changes the game state of
\* a room that is in the registry afterwards emits a game-state broadcast to
\* that room carrying the state after the change.
C19_BroadcastOnChange ==
  [][ \A r \in RoomIds :
        ( /\ r \in DOMAIN rooms'
          /\ r \notin DOMAIN rooms \/ GS(r)' # GS(r) ) =>
          ToRoom(r, GS(r)') \in Range(emitted') ]_vars

\* C20: a join-room whose roomId or playerName is missing or empty emits
\* only an error to the requester: no room is created, no membership or
\* game state changes, the connection joins no broadcast group and no timer
\* is touched.
C20_InvalidJoin ==
  [][ \A c \in Conns, roomId \in RoomIds \cup {""}, playerName \in {"Ann", ""} :
        ( /\ roomId = "" \/ playerName = ""
          /\ JoinRoom(c, roomId, playerName) ) =>
          /\ emitted' = << ToSocket(c, "error", "Room ID and player name are required") >>
          /\ rooms' = rooms
          /\ socketRooms' = socketRooms
          /\ UNCHANGED << gameIntervals, activeTimers >> ]_vars

\* a join-room without a valid payload has been refused while no room
\* exists, and none exists now
C20_Witness ==
  /\ emitted = << ToSocket("s1", "error", "Room ID and player name are required") >>
  /\ DOMAIN rooms = {}
  /\ socketRooms["s1"] = << >>

\* the connection's current room cannot be resolved to a room of the registry
RoomUnresolved(c) == currentRoom(c) = "" \/ currentRoom(c) \notin DOMAIN rooms

\* C21: a start-game, change-direction or leave-room sent by a connection
\* whose current room cannot be resolved to a room of the registry emits the
\* error 'Room not found' to that connection and changes no room, no game
\* state and no timer.
C21_RoomNotFound ==
  [][ \A c \in Conns :
        ( /\ connState[c] = "connected"
          /\ RoomUnresolved(c)
          /\ \/ StartGame(c)
             \/ \E d \in Directions : ChangeDirection(c, d)
             \/ LeaveRoom(c) ) =>
          /\ emitted' = << ToSocket(c, "error", "Room not found") >>
          /\ rooms' = rooms
          /\ UNCHANGED << gameIntervals, activeTimers >> ]_vars

\* C22: a join-room from a connection that is already a member of the room
\* it asks for adds no entry to the membership list, leaves the member's
\* player (snake, direction, score, color, alive) and the food as they were
\* and emits the player-joined acknowledgment to the requester; so it does
\* also for a room that has 4 members.
C22_RejoinIdempotent ==
  [][ \A c \in Conns, r \in RoomIds :
        ( /\ r \in DOMAIN rooms
          /\ c \in Range(rooms[r].players)
          /\ JoinRoom(c, r, "Ann") ) =>
          /\ rooms'[r].players = rooms[r].players
          /\ GS(r)'.players = GS(r).players
          /\ GS(r)'.food = GS(r).food
          /\ rooms' = rooms
          /\ emitted'[1] = ToSocket(c, "player-joined", c) ]_vars

\* the first member of a room of four has just asked to join it again
C22_Witness ==
  \E r \in DOMAIN rooms :
    /\ rooms[r].players = << "s1", "s2", "s3", "s4" >>
    /\ PlayerIds(GS(r)) = << "s1", "s2", "s3", "s4" >>
    /\ emitted = << ToSocket("s1", "player-joined", "s1"), ToRoom(r, GS(r)) >>

\* the cells of the player's snake after its move and before any tail is
\* removed: the snake as the collision pass sees it
MovedCells(player) ==
  IF player.alive THEN {HeadAfter(player)} \cup Range(player.snake)
  ELSE Range(player.snake)

\* C23: in an effective tick, a player alive at its start whose new head is
\* on the board and off its own snake is dead at the end of the tick exactly
\* if the new head is a cell of the moved snake of another player that was
\* alive at the start of the tick, whether or not that player dies in the
\* same pass; the snake of a player dead before the tick kills nobody.
C23_SnapshotObstacles ==
  [][ \A r \in RoomIds :
        EffectiveTick(r) =>
          \A i \in 1..Len(GS(r).players) :
            ( /\ GS(r).players[i].alive
              /\ ~OffBoard(HeadAfter(GS(r).players[i]))
              /\ HeadAfter(GS(r).players[i]) \notin Range(GS(r).players[i].snake) ) =>
              ( ~GS(r)'.players[i].alive <=>
                  \E o \in 1..Len(GS(r).players) :
                    /\ o # i
                    /\ GS(r).players[o].alive
                    /\ HeadAfter(GS(r).players[i]) \in MovedCells(GS(r).players[o]) ) ]_vars

\* after one tick: the first player has left the board and the second has
\* died on the first one's tail cell, while the fourth lives with its head
\* on the snake of the third, who was dead before the tick
C23_Witness ==
  \E r \in DOMAIN rooms :
    /\ ticks[r] = 1
    /\ Len(GS(r).players) = 4
    /\ ~GS(r).players[1].alive
    /\ OffBoard(GS(r).players[1].snake[1])
    /\ ~GS(r).players[2].alive
    /\ GS(r).players[2].snake[1] = GS(r).players[1].snake[3]
    /\ ~GS(r).players[3].alive
    /\ GS(r).players[3].snake = << Pos(15, -1), Pos(15, 0), Pos(15, 1) >>
    /\ GS(r).players[4].alive
    /\ GS(r).players[4].snake[1] \in Range(GS(r).players[3].snake)
    /\ GS(r).winner = "s4"

\* C24: in an effective tick, every player alive after the collision pass
\* whose head is on a food item when checkFoodCollision comes to it scores
\* exactly 10, and exactly that item, the one under its head, is taken out
\* of the list and one new item is pushed at the end; the items nobody ate
\* stay, in their order, so the food list is as long after the tick as
\* before it; the score of a player whose head is on no food then, and of a
\* dead player, does not change.  The food a player finds is the list as
\* the players before it in the loop left it: an item of the list before
\* the tick that nobody took, or a replacement that generateFood, out of
\* free samples, has just put under its head.
C24_EatAndReplace ==
  [][ \A r \in RoomIds :
        EffectiveTick(r) =>
          LET ate == Eaten(GS(r))
              kept == KeptFood(GS(r))
          IN /\ Len(GS(r)'.food) = Len(GS(r).food)
             /\ \A k \in 1..Len(kept) :
                  kept[k] # NewFood => GS(r)'.food[k] = kept[k]
             /\ \A j \in 1..Len(ate) :
                  /\ GS(r).players[ate[j].player].alive
                  /\ GS(r)'.players[ate[j].player].alive
                  /\ ate[j].cell = HeadAfter(GS(r).players[ate[j].player])
                  /\ \A k \in 1..Len(ate) : ate[k].player = ate[j].player => k = j
             /\ \A i \in 1..Len(GS(r).players) :
                  /\ ( /\ GS(r).players[i].alive
                       /\ GS(r)'.players[i].alive
                       /\ HeadAfter(GS(r).players[i]) \in Range(GS(r).food)
                       /\ \A o \in 1..(i - 1) :
                            GS(r)'.players[o].alive =>
                              HeadAfter(GS(r).players[o]) # HeadAfter(GS(r).players[i]) )
                       => i \in Eaters(GS(r))
                  /\ GS(r)'.players[i].score =
                       GS(r).players[i].score + (IF i \in Eaters(GS(r)) THEN 10 ELSE 0) ]_vars

\* after one tick in which the first player ate and generateFood, with all
\* its samples taken, put the new item on the cell under the head of the
\* second: the second ate that one in the same pass, each has scored 10,
\* and the list still holds three items
C24_Witness ==
  \E r \in DOMAIN rooms :
    /\ ticks[r] = 1
    /\ GS(r).gameStarted
    /\ Len(GS(r).players) = 2
    /\ GS(r).players[1].snake[1] = Pos(9, 10)
    /\ GS(r).players[1].score = 50
    /\ GS(r).players[2].snake = << Pos(16, 5), Pos(16, 4) >>
    /\ GS(r).players[2].score = 10
    /\ GS(r).food = << Pos(25, 10), Pos(26, 10), Pos(16, 5) >>

\* the membership list and the food list of room id r before a join-room:
\* empty when the join is about to create the room
MembersBefore(r) == IF r \in DOMAIN rooms THEN rooms[r].players ELSE << >>

FoodBefore(r) == IF r \in DOMAIN rooms THEN GS(r).food ELSE << >>

\* C25: a join-room with a valid payload from a connection that is not a
\* member, for a room that has fewer than 4 members or does not exist yet,
\* appends the connection id to the membership list and creates a player
\* with score 0, alive, direction RIGHT, the one-cell snake
\* startPositions[k mod 4] and the color PLAYER_COLORS[k mod 4], k being the
\* number of members before the join; the food list gets 3 items if it was
\* empty and is left as it was otherwise.
C25_JoinCreatesPlayer ==
  [][ \A c \in Conns, r \in RoomIds :
        ( /\ c \notin Range(MembersBefore(r))
          /\ Len(MembersBefore(r)) < 4
          /\ JoinRoom(c, r, "Ann") ) =>
          LET k == Len(MembersBefore(r))
          IN /\ rooms'[r].players = Append(MembersBefore(r), c)
             /\ HasPlayer(GS(r)', c)
             /\ PlayerOf(GS(r)', c) =
                  [ id |-> c,
                    name |-> "Ann",
                    snake |-> << startPositions[(k % 4) + 1] >>,
                    direction |-> "RIGHT",
                    score |-> 0,
                    color |-> PLAYER_COLORS[(k % 4) + 1],
                    alive |-> TRUE ]
             /\ IF FoodBefore(r) = << >>
                THEN Len(GS(r)'.food) = 3
                ELSE GS(r)'.food = FoodBefore(r) ]_vars

\* a fourth member has just joined a room whose game is running: it has the
\* fourth start cell and the fourth color, and the food of the game is the
\* food the start-game put there
C25_Witness ==
  \E r \in DOMAIN rooms :
    /\ Len(rooms[r].players) = 4
    /\ emitted = << ToSocket(rooms[r].players[4], "player-joined", rooms[r].players[4]),
                    ToRoom(r, GS(r)) >>
    /\ GS(r).players[4].id = rooms[r].players[4]
    /\ GS(r).players[4].snake = << Pos(15, 15) >>
    /\ GS(r).players[4].color = "#ef4444"
    /\ GS(r).gameStarted
    /\ GS(r).food = << Pos(6, 10), Pos(26, 10), Pos(16, 5) >>

\* C26: a join-room for a room id that is in the registry, whatever its
\* outcome, leaves the room in the registry with its players as they were
\* (a new player may follow them), its gameStarted, gameOver and winner
\* fields, its timer, and its food list when that is not empty; so it does
\* also while the room's game is running.
C26_JoinKeepsRoom ==
  [][ \A c \in Conns, r \in RoomIds :
        ( /\ r \in DOMAIN rooms
          /\ JoinRoom(c, r, "Ann") ) =>
          /\ r \in DOMAIN rooms'
          /\ SubSeq(GS(r)'.players, 1, Len(GS(r).players)) = GS(r).players
          /\ SubSeq(rooms'[r].players, 1, Len(rooms[r].players)) = rooms[r].players
          /\ GS(r)'.gameStarted = GS(r).gameStarted
          /\ GS(r)'.gameOver = GS(r).gameOver
          /\ GS(r)'.winner = GS(r).winner
          /\ GS(r).food # << >> => GS(r)'.food = GS(r).food
          /\ UNCHANGED << gameIntervals, activeTimers >> ]_vars

\* a third player has just joined a game that is running and has seen a
\* tick: the two snakes are where the tick left them and the timer is live
C26_Witness ==
  \E r \in DOMAIN rooms :
    /\ emitted = << ToSocket("s3", "player-joined", "s3"), ToRoom(r, GS(r)) >>
    /\ rooms[r].players = << "s1", "s2", "s3" >>
    /\ GS(r).gameStarted
    /\ ticks[r] = 1
    /\ activeTimers[r] = 1
    /\ GS(r).players[1].snake[1] = Pos(6, 10)
    /\ GS(r).players[2].snake[1] = Pos(26, 10)
    /\ GS(r).players[3].snake = << Pos(15, 5) >>
    /\ GS(r).players[3].score = 0

\* the step changes the registry entry of room id r (the record with its
\* membership and game state, or its being there) or the timer of r
RoomChanged(r) ==
  \/ (r \in DOMAIN rooms) # (r \in DOMAIN rooms')
  \/ r \in DOMAIN rooms /\ r \in DOMAIN rooms' /\ rooms'[r] # rooms[r]
  \/ activeTimers'[r] # activeTimers[r]
  \/ (r \in gameIntervals) # (r \in gameIntervals')

toUpperCase(roomId) == IF roomId = "room1" THEN "ROOM1" ELSE roomId

\* C28: the registry holds at most one room for the ids that differ in
\* letter case only: a join-room for such an id resolves to the room the
\* other id resolved to.
C28_CaseNormalized ==
  \A a, b \in DOMAIN rooms : toUpperCase(a) = toUpperCase(b) => a = b

\* C29: between handlers, every room in the registry has exactly 3 entries
\* in its food list, whatever join-room, start-game, leave-room, disconnect
\* and timer events have been handled.
C29_ThreeFood ==
  \A r \in DOMAIN rooms : Len(GS(r).food) = 3

\* a tick in which all three players of a game ate has just been broadcast,
\* and the room has three food items, none of them one the game started with
C29_Witness ==
  \E r \in DOMAIN rooms :
    /\ emitted = << ToRoom(r, GS(r)) >>
    /\ ticks[r] = 1
    /\ Len(GS(r).players) = 3
    /\ \A i \in 1..3 : GS(r).players[i].score = 10
    /\ Len(GS(r).food) = 3
    /\ GS(r).food[1] = Pos(5, 9)

\* C30: between handlers, for every room, the membership list has no id
\* twice and the ids in it are the keys of gameState.players.
C30_MembersArePlayers ==
  \A r \in DOMAIN rooms :
    /\ \A i, j \in 1..Len(rooms[r].players) :
         rooms[r].players[i] = rooms[r].players[j] => i = j
    /\ \A i, j \in 1..Len(GS(r).players) :
         GS(r).players[i].id = GS(r).players[j].id => i = j
    /\ Range(rooms[r].players) = Range(PlayerIds(GS(r)))

\* the first member has left a room of three during its game and has just
\* joined it again, behind the other two
C30_Witness ==
  \E r \in DOMAIN rooms :
    /\ rooms[r].players = << "s2", "s3", "s1" >>
    /\ PlayerIds(GS(r)) = << "s2", "s3", "s1" >>
    /\ emitted = << ToSocket("s1", "player-joined", "s1"), ToRoom(r, GS(r)) >>
    /\ ticks[r] = 1

\* C31: between handlers, any two different players of a room have different
\* colors, whatever join-room, leave-room, disconnect and start-game events
\* have been handled.
C31_DistinctColors ==
  \A r \in DOMAIN rooms :
    \A i, j \in 1..Len(GS(r).players) :
      i # j => GS(r).players[i].color # GS(r).players[j].color

\* the cell one step from pos in direction d
Step(pos, d) ==
  IF d = "UP" THEN Pos(pos.x, pos.y - 1)
  ELSE IF d = "DOWN" THEN Pos(pos.x, pos.y + 1)
  ELSE IF d = "LEFT" THEN Pos(pos.x - 1, pos.y)
  ELSE Pos(pos.x + 1, pos.y)

\* the directions in which the head of a snake of two or more cells moved
\* in the last tick: moveSnake put the new head in front of the old one
LastMoves(player) ==
  { d \in Directions : Step(player.snake[2], d) = player.snake[1] }

\* C32: in an effective tick, the head of a player that is alive and has
\* moved in the tick before does not move in the exact opposite of the
\* direction it moved in then, whatever change-direction events were handled
\* between the two ticks.
C32_NoReversalAcrossTicks ==
  [][ \A r \in RoomIds :
        EffectiveTick(r) =>
          \A i \in 1..Len(GS(r).players) :
            ( /\ GS(r).players[i].alive
              /\ Len(GS(r).players[i].snake) >= 2 ) =>
              opposites[GS(r).players[i].direction] \notin LastMoves(GS(r).players[i]) ]_vars

\* C33: between handlers, every alive player has score = 10 * (length of
\* its snake - 1); the score of every player is a non-negative multiple of
\* 10 and every snake has at least one cell.
C33_ScoreIsLength ==
  \A r \in DOMAIN rooms :
    \A i \in 1..Len(GS(r).players) :
      LET player == GS(r).players[i]
      IN /\ player.alive => player.score = 10 * (Len(player.snake) - 1)
         /\ player.score >= 0
         /\ player.score % 10 = 0
         /\ Len(player.snake) >= 1

\* a tick has just been broadcast in which one player ate and grew to two
\* cells and another, who had steered away from its food, did not
C33_Witness ==
  \E r \in DOMAIN rooms :
    /\ GS(r).gameStarted
    /\ ticks[r] = 1
    /\ emitted = << ToRoom(r, GS(r)) >>
    /\ \E i, j \in 1..Len(GS(r).players) :
         /\ GS(r).players[i].alive
         /\ GS(r).players[i].score = 10
         /\ Len(GS(r).players[i].snake) = 2
         /\ GS(r).players[j].alive
         /\ GS(r).players[j].score = 0
         /\ Len(GS(r).players[j].snake) = 1

\* C34: a player that is not alive stays as it is, with its alive flag, its
\* snake, its direction and its score, through every tick and every
\* change-direction, its own included; only a successful start-game in its
\* room, or its removal from the room, ends that.
C34_DeathIsPermanent ==
  [][ \A r \in RoomIds, c \in Conns :
        ( /\ r \in DOMAIN rooms
          /\ r \in DOMAIN rooms'
          /\ HasPlayer(GS(r), c)
          /\ ~PlayerOf(GS(r), c).alive
          /\ HasPlayer(GS(r)', c)
          /\ PlayerOf(GS(r)', c) # PlayerOf(GS(r), c) ) =>
          \E c2 \in Conns : currentRoom(c2) = r /\ StartGame(c2) ]_vars

\* the third player, dead since before, has been passed over by a tick that
\* left the game running: its snake lies where it died, heading UP as it did
\* then whatever it has asked for since, and its score is 10
C34_Witness ==
  \E r \in DOMAIN rooms :
    /\ ticks[r] = 1
    /\ GS(r).gameStarted
    /\ emitted = << ToRoom(r, GS(r)) >>
    /\ Len(GS(r).players) = 4
    /\ ~GS(r).players[3].alive
    /\ GS(r).players[3].snake = << Pos(15, -1), Pos(15, 0), Pos(15, 1) >>
    /\ GS(r).players[3].direction = "UP"
    /\ GS(r).players[3].score = 10
    /\ AliveCount(GS(r)) >= 2

\* the orders in which the loop of checkCollisions could run over the
\* players of its snapshot
Orders(aliveIdx) ==
  { order \in [ 1..Len(aliveIdx) -> Range(aliveIdx) ] :
      \A i, j \in 1..Len(aliveIdx) : order[i] = order[j] => i = j }

\* the players as a tick's collision pass finds them: all alive ones moved
MovedPlayers(r) == moveAlive(GS(r).players)

\* C35: the players marked dead by the collision pass of a tick are the same
\* for every order in which the pass examines the players alive at its
\* start: they depend on the moved snakes and on who was alive, not on the
\* order of the players mapping.
C35_OrderIndependent ==
  \A r \in DOMAIN rooms :
    (GS(r).gameStarted /\ ~GS(r).gameOver) =>
      LET moved == MovedPlayers(r)
          aliveIdx == aliveIndexes(moved)
          marked == collideFrom(moved, aliveIdx, 1)
      IN \A order \in Orders(aliveIdx) : collideFrom(moved, order, 1) = marked

\* a running game of four, all alive, whose next collision pass kills a
\* player at the wall and a second one on the snake of the first
C35_Witness ==
  \E r \in DOMAIN rooms :
    /\ GS(r).gameStarted
    /\ Len(aliveIndexes(MovedPlayers(r))) = 4
    /\ LET after == collideFrom(MovedPlayers(r), aliveIndexes(MovedPlayers(r)), 1)
       IN \E i, o \in 1..Len(after) :
            /\ i # o
            /\ ~after[o].alive
            /\ hitsWall(after[o].snake[1])
            /\ ~after[i].alive
            /\ ~hitsWall(after[i].snake[1])
            /\ ~hitsSelf(after[i])
            /\ after[i].snake[1] \in Range(after[o].snake)

\* C36: a game of 2 to 4 players that is left to itself after its
\* start-game, its timer firing, is over after at most 15 effective ticks,
\* after exactly 5 when it has 2 players: while it runs it has its timer and
\* has seen fewer than 15 ticks (fewer than 5 with 2 players); when it is
\* over the timer is cancelled and the winner is the first player in the
\* order of the room's players.
C36_IdleGameEnds ==
  \A r \in DOMAIN rooms :
    /\ GS(r).gameStarted =>
         /\ Len(GS(r).players) \in 2..4
         /\ activeTimers[r] = 1
         /\ ticks[r] < 15
         /\ Len(GS(r).players) = 2 => ticks[r] < 5
    /\ GS(r).gameOver =>
         /\ ticks[r] <= 15
         /\ Len(GS(r).players) = 2 => ticks[r] = 5
         /\ GS(r).winner = GS(r).players[1].id
         /\ activeTimers[r] = 0
         /\ r \notin gameIntervals

\* a game of four, started after its first member had left and come back,
\* has ended at its fifteenth tick: the first of its players, who is not
\* the first connection, has won and the others lie beyond the right wall
C36_Witness ==
  \E r \in DOMAIN rooms :
    /\ GS(r).gameOver
    /\ ticks[r] = 15
    /\ PlayerIds(GS(r)) = << "s2", "s3", "s4", "s1" >>
    /\ GS(r).winner = "s2"
    /\ GS(r).players[1].snake[1] = Pos(20, 10)
    /\ \A i \in 2..4 : ~GS(r).players[i].alive /\ GS(r).players[i].snake[1].x = 30
    /\ activeTimers[r] = 0

\* C37: a leave-room or disconnect that takes a member out of a running
\* game and leaves the room in the registry leaves gameStarted true and the
\* timer running, however few players are left alive; the next effective
\* tick of a game with at most one alive player sets gameOver, clears
\* gameStarted and cancels the timer, and nothing but an effective tick
\* clears gameStarted in a room that stays; and a game that is still started after
\* an effective tick has at least 2 alive players.
C37_LeaveEndsAtNextTick ==
  /\ [][ \A c \in Conns, r \in RoomIds :
          ( /\ r = currentRoom(c)
            /\ r \in DOMAIN rooms
            /\ GS(r).gameStarted
            /\ r \in DOMAIN rooms'
            /\ LeaveRoom(c) \/ Disconnect(c) ) =>
            /\ GS(r)'.gameStarted
            /\ ~GS(r)'.gameOver
            /\ activeTimers'[r] = 1 ]_vars
  /\ [][ \A r \in RoomIds :
          ( /\ r \in DOMAIN rooms
            /\ r \in DOMAIN rooms'
            /\ GS(r).gameStarted
            /\ ~GS(r)'.gameStarted ) => EffectiveTick(r) ]_vars
  /\ [][ \A r \in RoomIds :
          (EffectiveTick(r) /\ AliveCount(GS(r)) <= 1) =>
            /\ GS(r)'.gameOver
            /\ ~GS(r)'.gameStarted
            /\ activeTimers'[r] = 0
            /\ r \notin gameIntervals' ]_vars
  /\ [][ \A r \in RoomIds :
          (EffectiveTick(r) /\ GS(r)'.gameStarted) => AliveCount(GS(r)') >= 2 ]_vars

\* the first of two players left the running game before its first tick,
\* and that tick has ended the game: the one who stayed has eaten its food
\* and is the winner
C37_Witness ==
  \E r \in DOMAIN rooms :
    /\ emitted = << ToRoom(r, GS(r)) >>
    /\ ticks[r] = 1
    /\ GS(r).gameOver
    /\ ~GS(r).gameStarted
    /\ activeTimers[r] = 0
    /\ rooms[r].players = << "s2" >>
    /\ GS(r).winner = "s2"
    /\ GS(r).players[1].snake = << Pos(26, 10), Pos(25, 10) >>

\* C38: in every room, winner is set only if gameOver is true, and whenever
\* it is set it names a player that is at present in the room's players and
\* is alive, also after a leave-room or disconnect that follows the game
\* over.
C38_WinnerIsPresent ==
  \A r \in DOMAIN rooms :
    GS(r).winner # NoWinner =>
      /\ GS(r).gameOver
      /\ \E i \in 1..Len(GS(r).players) :
           /\ GS(r).players[i].id = GS(r).winner
           /\ GS(r).players[i].alive

====
